---- MODULE Spec2Model ----
(***************************************************************************)
(* Model of the just-in-time implementation engine:                        *)
(*   - IDE   (src/jit_code/ide.py): the type dependency resolver,          *)
(*   - Coder (src/jit_implementation/coder.py): cache check, bounded-retry *)
(*     tool-calling loop, compile/test of candidates, artifact writes.     *)
(* Specifications:                                                         *)
(*   Spec     sessions of Coder.run, one after the other, over one         *)
(*            artifact directory;                                          *)
(*   SpecIDE  arbitrary sequences of IDE.read_source and                   *)
(*            IDE.collect_types_from_object calls on one IDE;              *)
(*   SpecTalk one session of Coder.run with its transcript observed;       *)
(*   SpecSubmit what a submission is turned into before it is compiled;    *)
(*   SpecRW   the in-place rewrite of the origin file;                     *)
(*   SpecFP   the fingerprint (Coder._get_implementation_checksum) and the *)
(*            cache test (Coder._should_reuse_code) on pairs of inputs.    *)
(***************************************************************************)
EXTENDS Integers, Sequences, FiniteSets, TLC

VARIABLES
  \* ---- IDE (ide.py) ----
  source_code_dict,   \* IDE.source_code_dict: type -> source text or None
  unread_types,       \* IDE.unread_types
  fetches,            \* ghost: number of inspect.getsource calls made by the IDE
  left_unread,        \* ghost: types that were removed from unread_types
  lastCall,           \* ghost: the last IDE call and what it returned
  \* ---- Coder: constructor arguments ----
  declSrc,            \* inspect.getsource(self.obj)
  tests,              \* sources of self.test_functions, in order
  max_tries, autonomous, in_place,
  \* ---- Coder.run locals ----
  pc,                 \* "idle" | "run" | "loop" | "dispatch" | "done"
  implementation_checksum,
  version, tries,
  chain_of_thought,   \* whether the accumulated list of notes is non-empty
  offered,            \* choices of the ReadSourceCode tool of the current turn
  pending,            \* tool calls of the current response not yet dispatched
  outcome,            \* how run() ended
  result,             \* the object run() returned
  \* ---- artifact directory ----
  files,              \* path -> artifact or NoFile
  \* ---- ghosts ----
  sessions,           \* sessions started so far
  requests,           \* service requests of this session
  attempts,           \* candidates compiled and tested in this session
  lastAttempt,        \* the test loop of the last attempt
  prev,               \* the session before this one: its inputs and outcome
  fp,                 \* SpecFP: the pair of inputs and the cache answer
  messages,           \* the transcript: whose sources it holds, calls without result
  trace,              \* ghost: the calls of the current response, the operator
  rw,                 \* SpecRW: the origin file and its in-place rewrite
  sub,                \* SpecSubmit: a submission and the unit made of it
  limits              \* the bounds of the specification being explored

ideVars == <<source_code_dict, unread_types, fetches, left_unread, lastCall>>
cfgVars == <<declSrc, tests, max_tries, autonomous, in_place>>
runVars == <<pc, implementation_checksum, version, tries, chain_of_thought,
             offered, pending, outcome, result>>
ghostVars == <<sessions, requests, attempts, lastAttempt, prev>>
talkVars == <<messages, trace>>
auxVars == <<fp, rw, sub>>
vars == <<ideVars, cfgVars, runVars, files, ghostVars, talkVars, auxVars, limits>>

---------------------------------------------------------------------------
(* Bounds *)

NTypes == 1          \* custom types 1..NTypes of the IDE
SessionTypes == 1    \* custom types a session's annotations mention
MaxTries == 2        \* Spec: max_tries is drawn from 0..MaxTries
MaxCalls == 2        \* tool calls in one service response
MaxRequests == 2     \* Spec: service requests in one session
MaxTests == 2        \* Spec: test predicates of a session
MaxSessions == 2     \* SpecStore: sessions over the same artifact directory
StoreTries == 1      \* SpecStore: max_tries is drawn from 0..StoreTries
StoreRequests == 1   \* SpecStore: service requests in one session
StoreTests == 1      \* SpecStore: test predicates of a session
MaxSrcLen == 2       \* SpecFP: length of a declaration's source text
TalkTries == 2       \* SpecTalk: max_tries is drawn from 0..TalkTries
TalkRequests == 2    \* SpecTalk: service requests in one session
TalkTests == 1       \* SpecTalk: test predicates of a session
MaxLines == 3        \* SpecSubmit: lines of a submitted code text
MaxFileLen == 3      \* SpecRW: length of the origin file

\* The bounds of a specification.
RunLimits ==
  [sessions |-> 1, tries |-> MaxTries, requests |-> MaxRequests, tests |-> MaxTests,
   trace |-> FALSE, live |-> FALSE]
StoreLimits ==
  [sessions |-> MaxSessions, tries |-> StoreTries, requests |-> StoreRequests,
   tests |-> StoreTests, trace |-> FALSE, live |-> FALSE]
TalkLimits ==
  [sessions |-> 1, tries |-> TalkTries, requests |-> TalkRequests, tests |-> TalkTests,
   trace |-> TRUE, live |-> FALSE]
\* Sessions followed to their end: run() sends as many requests as its loop
\* makes turns, and the count of requests stops at its bound instead of
\* stopping the loop.
LiveLimits ==
  [sessions |-> 1, tries |-> TalkTries, requests |-> TalkRequests, tests |-> TalkTests,
   trace |-> FALSE, live |-> TRUE]

---------------------------------------------------------------------------
(* Types and annotations (ide.py)                                          *)

Decl == 0                          \* the declaration (self.obj)
CustomTypes == 1..NTypes           \* classes whose __module__ is not "builtins"
BuiltinType == NTypes + 1          \* a class of module "builtins" (int, list)
AllTypes == {Decl} \cup CustomTypes \cup {BuiltinType}
NonType == -1                      \* an origin that is no class (typing.Union)

Plain(t) == [kind |-> "type", origin |-> t, args |-> <<>>]
Generic(o, as) == [kind |-> "generic", origin |-> o, args |-> as]
Other == [kind |-> "other", origin |-> NonType, args |-> <<>>]

IsType(x) == x \in AllTypes                      \* isinstance(x, type)
Module(t) == IF t = BuiltinType THEN "builtins" ELSE "user"

RECURSIVE get_all_types_from_annotation(_)
get_all_types_from_annotation(annotation) ==
  IF annotation.kind = "type" THEN {annotation.origin}
  ELSE IF annotation.kind = "generic"
  THEN (IF IsType(annotation.origin) THEN {annotation.origin} ELSE {})
       \cup UNION {get_all_types_from_annotation(annotation.args[i]) :
                     i \in DOMAIN annotation.args}
  ELSE {}

\* What get_type_hints gives for an object: not inspectable (neither class nor
\* function), or a set of annotations.
NoHints == [inspectable |-> FALSE, anns |-> {}]
HintsOf(anns) == [inspectable |-> TRUE, anns |-> anns]

RECURSIVE SeqOfSet(_)
SeqOfSet(S) ==
  IF S = {} THEN <<>>
  ELSE LET m == CHOOSE x \in S : \A y \in S : x <= y
       IN <<Plain(m)>> \o SeqOfSet(S \ {m})

\* The annotation sets the model draws: the types of S written plainly, as the
\* arguments of one builtin generic (Tuple[A, B]), under a non-class origin
\* around a builtin generic (Optional[List[A]]), or as generic origins (A[T]).
Shapes == {"plain", "generic", "nested", "origin"}
MakeAnns(S, shape) ==
  CASE shape = "plain" -> {Plain(t) : t \in S}
    [] shape = "generic" -> {Generic(BuiltinType, SeqOfSet(S))}
    [] shape = "nested" ->
         {Generic(NonType, <<Generic(BuiltinType, <<Plain(t)>>), Other>>) : t \in S}
    [] OTHER -> {Generic(t, <<Other>>) : t \in S}
\* One annotation set for every set of types, the shape varying with the set.
ShapeOf(S) ==
  CASE Cardinality(S) % 4 = 0 -> "origin"
    [] Cardinality(S) % 4 = 1 -> "nested"
    [] Cardinality(S) % 4 = 2 -> "generic"
    [] OTHER -> "plain"
HintsNaming(S) == HintsOf(MakeAnns(S, ShapeOf(S)))
HintChoices == {HintsNaming(S) : S \in SUBSET AllTypes}
SessionHints ==
  {HintsNaming(S) : S \in SUBSET ({Decl, BuiltinType} \cup 1..SessionTypes)}

\* A collect that does not consult the dict.
collect_mutant_readd(dict, unread, hints) ==
  IF ~hints.inspectable THEN unread
  ELSE unread \cup
       {typ \in UNION {get_all_types_from_annotation(a) : a \in hints.anns} :
          IsType(typ) /\ Module(typ) # "builtins"}

\* IDE.collect_types_from_object: the unread set after the call.
collect_types_from_object(dict, unread, hints) ==
  IF ~hints.inspectable THEN unread
  ELSE unread \cup
       {typ \in UNION {get_all_types_from_annotation(a) : a \in hints.anns} :
          IsType(typ) /\ Module(typ) # "builtins" /\ typ \notin DOMAIN dict}

\* Source texts: whose source, still indented, still carrying its decorators.
NoneVal == [of |-> NonType, indented |-> FALSE, decorated |-> FALSE]
getsource(t) == [of |-> t, indented |-> TRUE, decorated |-> TRUE]
dedent(s) == [s EXCEPT !.indented = FALSE]
\* The postprocessor Coder.run passes (coder.py 201-206) strips the decorators.
Postprocessors == {"none", "strip"}
postprocess(pp, s) == IF pp = "strip" THEN [s EXCEPT !.decorated = FALSE] ELSE s

\* What inspect.getsource / get_type_hints do for the type being read:
\*   "ok"        both succeed,
\*   "nosource"  getsource raises TypeError or OSError,
\*   "hintserr"  getsource succeeds, get_type_hints raises TypeError.
FetchKinds == {"ok", "nosource", "hintserr"}
KindsOf(t) == IF t = BuiltinType THEN {"nosource"} ELSE FetchKinds

Put(dict, t, v) == [x \in DOMAIN dict \cup {t} |-> IF x = t THEN v ELSE dict[x]]

\* A read_source without the early return on a resolved type.
read_source_mutant_nocache(dict, unread, t, pp, kind, hints) ==
  IF kind = "nosource"
  THEN [dict |-> Put(dict, t, NoneVal), unread |-> unread \ {t},
        ret |-> NoneVal, fetched |-> TRUE]
  ELSE LET source == postprocess(pp, dedent(getsource(t)))
           d1 == Put(dict, t, source)
           u1 == unread \ {t}
       IN IF kind = "hintserr"
          THEN [dict |-> Put(d1, t, NoneVal), unread |-> u1 \ {t},
                ret |-> NoneVal, fetched |-> TRUE]
          ELSE [dict |-> d1, unread |-> collect_types_from_object(d1, u1, hints),
                ret |-> source, fetched |-> TRUE]

\* A read_source that stores the fetched source without discarding the type
\* from the unread set.
read_source_mutant_nodiscard(dict, unread, t, pp, kind, hints) ==
  IF t \in DOMAIN dict
  THEN [dict |-> dict, unread |-> unread, ret |-> dict[t], fetched |-> FALSE]
  ELSE IF kind = "nosource"
  THEN [dict |-> Put(dict, t, NoneVal), unread |-> unread \ {t},
        ret |-> NoneVal, fetched |-> TRUE]
  ELSE LET source == postprocess(pp, dedent(getsource(t)))
           d1 == Put(dict, t, source)
       IN IF kind = "hintserr"
          THEN [dict |-> Put(d1, t, NoneVal), unread |-> unread \ {t},
                ret |-> NoneVal, fetched |-> TRUE]
          ELSE [dict |-> d1, unread |-> collect_types_from_object(d1, unread, hints),
                ret |-> source, fetched |-> TRUE]

\* IDE.read_source: the new dict and unread set, the value returned, and
\* whether inspect.getsource was called.
read_source(dict, unread, t, pp, kind, hints) ==
  IF t \in DOMAIN dict
  THEN [dict |-> dict, unread |-> unread, ret |-> dict[t], fetched |-> FALSE]
  ELSE IF kind = "nosource"
  THEN [dict |-> Put(dict, t, NoneVal), unread |-> unread \ {t},
        ret |-> NoneVal, fetched |-> TRUE]
  ELSE LET source == postprocess(pp, dedent(getsource(t)))
           d1 == Put(dict, t, source)
           u1 == unread \ {t}
       IN IF kind = "hintserr"
          THEN [dict |-> Put(d1, t, NoneVal), unread |-> u1 \ {t},
                ret |-> NoneVal, fetched |-> TRUE]
          ELSE [dict |-> d1, unread |-> collect_types_from_object(d1, u1, hints),
                ret |-> source, fetched |-> TRUE]

EmptyDict == [x \in {} |-> NoneVal]
\* Ghost record of an IDE call: the operation, its arguments, what it returned,
\* whether the type was resolved before the call, and the types named by the
\* annotations the call inspected that had left the unread set before.
NoCall == [op |-> "none", t |-> NonType, pp |-> "none", ret |-> NoneVal,
           resolved |-> FALSE, found |-> {}]
NamedTypes(hints) ==
  IF ~hints.inspectable THEN {}
  ELSE {typ \in UNION {get_all_types_from_annotation(a) : a \in hints.anns} :
          IsType(typ) /\ Module(typ) # "builtins"}

\* A tool surface that always lists every custom type.
reveal_choices_mutant_all(unread) == CustomTypes

\* coder.py 237-243: the choices of the ReadSourceCode tool of a turn (the
\* types stand for their names, which are taken to be distinct); the tool is
\* part of the request iff there is a choice.
reveal_choices(unread) == unread

---------------------------------------------------------------------------
(* Fingerprint and artifact store (coder.py)                               *)

Chars == {"x", "\n"}
Str(n) == UNION {[1..k -> Chars] : k \in 1..n}
ListsOf(S, n) == UNION {[1..k -> S] : k \in 0..n}

RECURSIVE Join(_, _)
Join(strs, sep) ==
  IF Len(strs) = 0 THEN <<>>
  ELSE IF Len(strs) = 1 THEN strs[1]
  ELSE strs[1] \o sep \o Join(Tail(strs), sep)

\* hashlib.sha256(...).hexdigest(), idealised as injective: the digest of a
\* text is represented by the text.
sha256(text) == text

\* coder.py 176-178: the text that is digested.
digested_text(declaration_source, test_sources) ==
  declaration_source \o Join(test_sources, <<"\n">>)

get_implementation_checksum(declaration_source, test_sources) ==
  sha256(digested_text(declaration_source, test_sources))

\* Paths under IMPLEMENTATION_PATH: code_path, and
\* code_path.with_suffix(".vNN_failed.py").
Slot == <<"code_path", 0>>
FailedPath(v) == <<"failed", v>>
NoPath == <<"none", 0>>

\* A template without the checksum line.
Render_mutant_nochecksum(v, failed, checksum, code) ==
  [version |-> v,
   tests_passed |-> IF ~failed THEN "PASSED" ELSE "FAILED",
   implementation_checksum |-> <<>>,
   code |-> code]

\* REVISION_TEMPLATE.render: the fields of the artifact text.
Render(v, failed, checksum, code) ==
  [version |-> v,
   tests_passed |-> IF ~failed THEN "PASSED" ELSE "FAILED",
   implementation_checksum |-> checksum,
   code |-> code]

\* re.search(r"Implementation Checksum: (\w+)", content).group(1)
ParseChecksum(content) == content.implementation_checksum

\* A cache test comparing group(0), the whole match, instead of group(1).
should_reuse_code_mutant_group0(fs, checksum) ==
  /\ Slot \in DOMAIN fs
  /\ <<"Implementation Checksum: ">> \o ParseChecksum(fs[Slot]) = checksum

\* Coder._should_reuse_code
should_reuse_code(fs, checksum) ==
  /\ Slot \in DOMAIN fs
  /\ ParseChecksum(fs[Slot]) = checksum

\* Candidate code: which implementation it is, and what compile/exec and the
\* lookup of the declaration's name do with it.
CodeIds == {"c1", "c2"}
CompileKinds == {"ok", "SyntaxError", "KeyError"}
Codes == [id : CodeIds, compile : CompileKinds]
NoObj == "None"

compile_code(code) ==
  IF code.compile = "ok" THEN [raised |-> FALSE, obj |-> code.id]
  ELSE [raised |-> TRUE, obj |-> NoObj]

\* The test loop (coder.py 310-316) over the predicates' behaviours on the
\* object: every predicate is called in turn; a predicate that raises ends it.
TestResults == {"pass", "fail", "raise"}

RECURSIVE shortcircuit_rec(_, _, _, _)
shortcircuit_rec(rs, i, failed, log) ==
  IF i > Len(rs) \/ failed THEN [failed |-> failed, log |-> log, raised |-> FALSE]
  ELSE IF rs[i] = "raise" THEN [failed |-> failed, log |-> log \o <<i>>, raised |-> TRUE]
  ELSE shortcircuit_rec(rs, i + 1, failed \/ rs[i] # "pass", log \o <<i>>)

\* A test loop that stops at the first predicate returning fail.
test_loop_mutant_shortcircuit(rs) == shortcircuit_rec(rs, 1, FALSE, <<>>)

RECURSIVE test_loop_rec(_, _, _, _)
test_loop_rec(rs, i, failed, log) ==
  IF i > Len(rs) THEN [failed |-> failed, log |-> log, raised |-> FALSE]
  ELSE IF rs[i] = "raise" THEN [failed |-> failed, log |-> log \o <<i>>, raised |-> TRUE]
  ELSE test_loop_rec(rs, i + 1, failed \/ rs[i] # "pass", log \o <<i>>)

test_loop(rs) == test_loop_rec(rs, 1, FALSE, <<>>)

\* Every artifact written at code_path.
artifact_path_mutant_always_slot(failed, v) == Slot

\* coder.py 318-322: where the artifact of an attempt is written.
artifact_path(failed, v) == IF ~failed THEN Slot ELSE FailedPath(v)

\* coder.py 230: whether the operator is asked before the turn.
prompt_needed_mutant_always(au, t) == ~au

prompt_needed(au, t) == ~au /\ t > 0

\* coder.py 284-286: whether _print_code returns (TRUE) or raises (FALSE).
print_code(code) == IF code = NoneVal THEN BOOLEAN ELSE {TRUE}

\* A tool message that carries no content.
append_source_mutant_drop(sources, ret) == sources

\* coder.py 287-293: the sources the transcript holds after the tool message
\* of a reveal call is appended.
append_source(sources, ret) ==
  IF ret = NoneVal THEN sources ELSE sources \cup {ret.of}

\* coder.py 229: the guard of the retry loop.
loop_guard(t, max) == t < max

\* A budget check that allows one more attempt.
budget_spent_mutant_strict(t, max) == t > max

\* coder.py 368: the check after a failed attempt.
budget_spent(t, max) == t >= max

\* Ghost record of an attempt: the number of predicates, whether some predicate
\* returned fail, the first predicate that raised (0: none), and what the test
\* loop did: the predicates it called, in order, its flag, the path written.
Attempt(rs, t, path) ==
  [n |-> Len(rs),
   anyFail |-> \E i \in DOMAIN rs : rs[i] = "fail" /\ \A j \in 1..i : rs[j] # "raise",
   firstRaise |-> IF \E i \in DOMAIN rs : rs[i] = "raise"
                  THEN CHOOSE i \in DOMAIN rs :
                         rs[i] = "raise" /\ \A j \in 1..(i - 1) : rs[j] # "raise"
                  ELSE 0,
   firstFail |-> IF \E i \in DOMAIN rs : rs[i] = "fail"
                 THEN CHOOSE i \in DOMAIN rs :
                        rs[i] = "fail" /\ \A j \in 1..(i - 1) : rs[j] # "fail"
                 ELSE 0,
   log |-> t.log, failed |-> t.failed, wrote |-> path]
NoAttempt == [n |-> 0, anyFail |-> FALSE, firstRaise |-> 0, firstFail |-> 0,
              log |-> <<>>, failed |-> FALSE, wrote |-> NoPath]

---------------------------------------------------------------------------
(* Sessions of Coder.run                                                   *)

EmptyFiles == [x \in {} |-> Render(0, FALSE, <<>>, [id |-> "c1", compile |-> "ok"])]
WriteFile(fs, path, content) ==
  [x \in DOMAIN fs \cup {path} |-> IF x = path THEN content ELSE fs[x]]

NoPrev == [outcome |-> "none", declSrc |-> <<>>, tests |-> <<>>, in_place |-> FALSE]

NoInput == [decl |-> <<>>, tests |-> <<>>]
NoFP == [phase |-> "none", a |-> NoInput, b |-> NoInput, reuse |-> FALSE]
NoRW == [phase |-> "none", file |-> <<>>, first |-> 0, last |-> 0, code |-> <<>>,
         out |-> <<>>]
NoSub == [phase |-> "none", imports |-> <<>>, code |-> <<"">>, fmt |-> "none",
          formatted |-> <<"">>, body |-> <<"">>, unit |-> <<"">>]

\* The transcript (the messages list of run()), as far as it is observed: the
\* types whose source text some message carries, and the number of tool calls
\* of assistant messages that no tool message answers.
NoMessages == [sources |-> {}, open |-> 0]
\* Ghost record of the current response: how many tool calls it holds, how
\* many of them a branch of the dispatch loop has handled to its end, the
\* call taken last (its tool, the type it names), and whether the operator
\* has confirmed since the last failed attempt.
NoTrace == [ncalls |-> 0, dispatched |-> 0, call |-> "none", t |-> NonType,
            confirmed |-> FALSE]
\* The transcript and the ghost are kept in the specifications that observe
\* them (limits.trace).
Record(m, tr) ==
  IF limits.trace THEN messages' = m /\ trace' = tr
  ELSE UNCHANGED <<messages, trace>>

\* The declaration sources a session is started with. Over an empty artifact
\* directory that is used by one session only, the source enters nothing but
\* the checksum that session writes, so one source stands for all.
DeclSources(lim) == IF lim.sessions = 1 THEN {<<"x">>} ELSE Str(1)
\* The lists of predicate sources a session is started with.
TestLists(n) == ListsOf({<<"x">>}, n)

InitWith(lim, p, unread) ==
  /\ limits = lim
  /\ source_code_dict = EmptyDict
  /\ unread_types = unread
  /\ fetches = 0
  /\ left_unread = {}
  /\ lastCall = NoCall
  /\ declSrc = <<"x">>
  /\ tests = <<>>
  /\ max_tries = 0
  /\ autonomous = TRUE
  /\ in_place = FALSE
  /\ pc = p
  /\ implementation_checksum = <<>>
  /\ version = 0
  /\ tries = 0
  /\ chain_of_thought = FALSE
  /\ offered = {}
  /\ pending = 0
  /\ outcome = "none"
  /\ result = NoObj
  /\ files = EmptyFiles
  /\ sessions = 0
  /\ requests = 0
  /\ attempts = 0
  /\ lastAttempt = NoAttempt
  /\ prev = NoPrev
  /\ messages = NoMessages
  /\ trace = NoTrace

NoAux == fp = NoFP /\ rw = NoRW /\ sub = NoSub
Init == InitWith(RunLimits, "idle", {}) /\ NoAux
InitStore == InitWith(StoreLimits, "idle", {}) /\ NoAux
InitTalk == InitWith(TalkLimits, "idle", {}) /\ NoAux
InitLive == InitWith(LiveLimits, "idle", {}) /\ NoAux

\* How run() ends.
End(o, r) ==
  /\ pc' = "done"
  /\ outcome' = o
  /\ result' = r

\* After a call was dispatched without ending run(): the next call of the
\* response, or the next turn of the while loop.
NextCall ==
  /\ pending' = pending - 1
  /\ pc' = IF pending = 1 THEN "loop" ELSE "dispatch"
  /\ UNCHANGED <<outcome, result>>

\* decorator.py 64-66 and Coder.__init__ (coder.py 92-107): a call of the
\* decorated declaration constructs a Coder, and with it a fresh IDE that
\* collects the types of the declaration (ide.py 7-10).
NewSession ==
  /\ pc = "idle"
  /\ sessions < limits.sessions
  /\ \E d \in DeclSources(limits), ts \in TestLists(limits.tests), mt \in 0..limits.tries,
        au \in BOOLEAN, ip \in BOOLEAN, hints \in SessionHints :
       /\ declSrc' = d
       /\ tests' = ts
       /\ max_tries' = mt
       /\ autonomous' = au
       /\ in_place' = ip
       /\ unread_types' = collect_types_from_object(EmptyDict, {}, hints)
  /\ pc' = "run"
  /\ sessions' = sessions + 1
  /\ UNCHANGED <<source_code_dict, fetches, left_unread, lastCall,
                 implementation_checksum, version, tries, chain_of_thought,
                 offered, pending, outcome, result, files, requests, attempts,
                 lastAttempt, prev, talkVars, auxVars, limits>>

\* run() has returned or raised: the Coder, its IDE and the locals of run()
\* are gone; the artifact directory stays.
Exit ==
  /\ pc = "done"
  /\ pc' = "idle"
  /\ prev' = [outcome |-> outcome, declSrc |-> declSrc, tests |-> tests,
              in_place |-> in_place]
  /\ source_code_dict' = EmptyDict
  /\ unread_types' = {}
  /\ fetches' = 0
  /\ left_unread' = {}
  /\ lastCall' = NoCall
  /\ declSrc' = <<"x">>
  /\ tests' = <<>>
  /\ max_tries' = 0
  /\ autonomous' = TRUE
  /\ in_place' = FALSE
  /\ implementation_checksum' = <<>>
  /\ version' = 0
  /\ tries' = 0
  /\ chain_of_thought' = FALSE
  /\ offered' = {}
  /\ pending' = 0
  /\ outcome' = "none"
  /\ result' = NoObj
  /\ requests' = 0
  /\ attempts' = 0
  /\ lastAttempt' = NoAttempt
  /\ messages' = NoMessages
  /\ trace' = NoTrace
  /\ UNCHANGED <<files, sessions, auxVars, limits>>

\* coder.py 192-227: the cache check; on a miss the declaration's source is
\* read twice through the IDE (once stripped of decorators for the console,
\* once for the prompt) and the loop's locals are initialised.
CheckCache ==
  /\ pc = "run"
  /\ LET checksum == get_implementation_checksum(declSrc, tests) IN
     /\ implementation_checksum' = checksum
     /\ IF should_reuse_code(files, checksum)
        THEN LET c == compile_code(files[Slot].code) IN
             /\ IF c.raised THEN End(files[Slot].code.compile, NoObj)
                           ELSE End("hit", c.obj)
             /\ UNCHANGED <<ideVars, talkVars>>
        ELSE \E hints \in SessionHints :
             \* the declaration's annotations are those the constructor saw
             /\ collect_types_from_object(EmptyDict, {}, hints) = unread_types
             /\ LET r1 == read_source(source_code_dict, unread_types, Decl,
                                      "strip", "ok", hints)
                    r2 == read_source(r1.dict, r1.unread, Decl, "none", "ok", hints)
                IN /\ source_code_dict' = r2.dict
                   /\ unread_types' = r2.unread
                   /\ fetches' = fetches + (IF r1.fetched THEN 1 ELSE 0)
                                         + (IF r2.fetched THEN 1 ELSE 0)
                   /\ left_unread' = left_unread \cup (unread_types \ r2.unread)
                   /\ UNCHANGED lastCall
                   \* coder.py 210-218: the first user message carries the
                   \* declaration's source
                   /\ Record([messages EXCEPT !.sources = append_source({}, r2.ret)],
                             trace)
             /\ pc' = "loop"
             /\ UNCHANGED <<outcome, result>>
  /\ UNCHANGED <<cfgVars, version, tries, chain_of_thought, offered, pending,
                 files, ghostVars, auxVars, limits>>

\* coder.py 229-254: the loop guard, the operator prompt, the tool surface of
\* the turn and the request; the response holds 1..MaxCalls tool calls.
Turn ==
  /\ pc = "loop"
  /\ IF ~loop_guard(tries, max_tries)
     THEN \* the while loop ends and run() falls off its end
          /\ End("returned_none", NoObj)
          /\ UNCHANGED <<offered, pending, requests, talkVars>>
     ELSE \E answer \in BOOLEAN, key \in BOOLEAN, n \in 1..MaxCalls :
          LET asked == prompt_needed(autonomous, tries)
              tr == [trace EXCEPT !.confirmed = trace.confirmed \/ asked]
          IN
          IF asked /\ ~answer
          THEN /\ End("cancelled", NoObj)
               /\ UNCHANGED <<offered, pending, requests, talkVars>>
          ELSE IF ~key
          THEN \* Coder.oai: no API key, quit()
               /\ End("config_error", NoObj)
               /\ offered' = reveal_choices(unread_types)
               /\ Record(messages, tr)
               /\ UNCHANGED <<pending, requests>>
          ELSE /\ limits.live \/ requests < limits.requests
               /\ offered' = reveal_choices(unread_types)
               /\ requests' = IF requests < limits.requests THEN requests + 1
                                                             ELSE requests
               /\ pending' = n
               /\ pc' = "dispatch"
               \* coder.py 253-254: the assistant message with its n tool calls
               /\ Record(messages,
                         [tr EXCEPT !.ncalls = n, !.dispatched = 0,
                                    !.call = "none", !.t = NonType])
               /\ UNCHANGED <<outcome, result>>
  /\ UNCHANGED <<ideVars, cfgVars, implementation_checksum, version, tries,
                 chain_of_thought, files, sessions, attempts, lastAttempt, prev,
                 auxVars, limits>>

\* coder.py 257-271: a Reasoning call.
DispatchReasoning ==
  /\ pc = "dispatch"
  /\ \E notes \in BOOLEAN :    \* the call's list of notes may be empty
       chain_of_thought' = (chain_of_thought \/ notes)
  /\ NextCall
  \* coder.py 265-271: the call is answered ("valid")
  /\ Record(messages, [trace EXCEPT !.dispatched = @ + 1, !.call = "Reasoning",
                                    !.t = NonType])
  /\ UNCHANGED <<ideVars, cfgVars, implementation_checksum, version, tries,
                 offered, files, ghostVars, auxVars, limits>>

\* coder.py 273-293: a ReadSourceCode call; its type is one of the enum built
\* for this turn. With nothing unread no branch of the if chain is taken.
DispatchReveal ==
  /\ pc = "dispatch"
  /\ \E t \in offered :
       IF unread_types = {}
       THEN \* no branch is taken: nothing is appended for this call
            /\ NextCall
            /\ Record([messages EXCEPT !.open = @ + 1],
                      [trace EXCEPT !.call = "ReadSourceCode", !.t = t])
            /\ UNCHANGED ideVars
       ELSE IF t \notin unread_types
       THEN \* the lookup by name raises KeyError
            /\ End("RevealKeyError", NoObj)
            /\ Record([messages EXCEPT !.open = @ + 1],
                      [trace EXCEPT !.call = "ReadSourceCode", !.t = t])
            /\ UNCHANGED <<ideVars, pending>>
       ELSE \E kind \in KindsOf(t), hints \in SessionHints :
            LET r == read_source(source_code_dict, unread_types, t, "none",
                                 kind, hints)
                taken == [trace EXCEPT !.call = "ReadSourceCode", !.t = t]
            IN /\ source_code_dict' = r.dict
               /\ unread_types' = r.unread
               /\ fetches' = fetches + (IF r.fetched THEN 1 ELSE 0)
               /\ left_unread' = left_unread \cup (unread_types \ r.unread)
               /\ UNCHANGED lastCall
               \* coder.py 284-286: the console library, which is not part of
               \* the source, is handed what read_source returned; handed
               \* None it prints or it raises
               /\ \E printed \in print_code(r.ret) :
                    IF ~printed
                    THEN /\ End("PrintError", NoObj)
                         /\ Record([messages EXCEPT !.open = @ + 1], taken)
                         /\ UNCHANGED pending
                    ELSE /\ NextCall
                         \* coder.py 287-293: the tool message carries what
                         \* read_source returned, the source text or None
                         /\ Record([messages EXCEPT
                                      !.sources = append_source(@, r.ret)],
                                   [taken EXCEPT !.dispatched = @ + 1])
  /\ UNCHANGED <<cfgVars, implementation_checksum, version, tries,
                 chain_of_thought, offered, files, ghostVars, auxVars, limits>>

\* coder.py 295-371: a SubmitVersion call: compile, run every predicate,
\* write the artifact, then return, restart, retry or raise.
DispatchSubmit ==
  /\ pc = "dispatch"
  /\ version' = version + 1
  /\ \E code \in Codes, rs \in [1..Len(tests) -> TestResults] :
       LET c == compile_code(code)
           t == test_loop(rs)
           path == artifact_path(t.failed, version + 1)
           taken == [trace EXCEPT !.call = "SubmitVersion", !.t = NonType]
           tested == [taken EXCEPT !.dispatched = @ + 1]
       IN IF c.raised
          THEN \* compile/exec or the lookup of the name raises
               /\ End(code.compile, NoObj)
               /\ Record([messages EXCEPT !.open = @ + 1], taken)
               /\ UNCHANGED <<tries, pending, files, attempts, lastAttempt>>
          ELSE IF t.raised
          THEN \* a predicate raises
               /\ End("TestError", NoObj)
               /\ attempts' = attempts + 1
               /\ lastAttempt' = Attempt(rs, t, NoPath)
               /\ Record([messages EXCEPT !.open = @ + 1], taken)
               /\ UNCHANGED <<tries, pending, files>>
          ELSE /\ attempts' = attempts + 1
               /\ lastAttempt' = Attempt(rs, t, path)
               /\ files' = WriteFile(files, path,
                             Render(version + 1, t.failed,
                                    implementation_checksum, code))
               /\ IF ~t.failed
                  THEN /\ IF in_place THEN End("restarted", NoObj)
                                      ELSE End("accepted", c.obj)
                       \* run() returns or exits before any tool message
                       /\ Record([messages EXCEPT !.open = @ + 1], tested)
                       /\ UNCHANGED <<tries, pending>>
                  ELSE /\ tries' = tries + 1
                       \* coder.py 361-367: the call is answered ("Tests failed")
                       /\ Record(messages, [tested EXCEPT !.confirmed = FALSE])
                       /\ IF budget_spent(tries + 1, max_tries)
                          THEN End("exhausted", NoObj) /\ UNCHANGED pending
                          ELSE NextCall
  /\ UNCHANGED <<ideVars, cfgVars, implementation_checksum, chain_of_thought,
                 offered, sessions, requests, prev, auxVars, limits>>

Next ==
  \/ NewSession
  \/ Exit
  \/ CheckCache
  \/ Turn
  \/ DispatchReasoning
  \/ DispatchReveal
  \/ DispatchSubmit

Spec == Init /\ [][Next]_vars
SpecStore == InitStore /\ [][Next]_vars
SpecTalk == InitTalk /\ [][Next]_vars
\* run() is one sequential program: while a step of it is possible (the
\* service responds, the operator answers the prompt), a step is taken.
SpecLive == InitLive /\ [][Next]_vars /\ WF_vars(Next)

---------------------------------------------------------------------------
(* One IDE under arbitrary calls                                           *)

InitIDE ==
  /\ \E hints \in HintChoices \cup {NoHints} :
       InitWith(RunLimits, "ide", collect_types_from_object(EmptyDict, {}, hints))
  /\ NoAux

\* IDE.read_source(t, postprocessor) on any type.
IDEReadSource ==
  /\ pc = "ide"
  /\ \E t \in AllTypes, pp \in Postprocessors :
     \E kind \in IF t \in DOMAIN source_code_dict THEN {"ok"} ELSE KindsOf(t) :
     \E hints \in IF t \in DOMAIN source_code_dict \/ kind # "ok"
                  THEN {NoHints} ELSE HintChoices :
       LET r == read_source(source_code_dict, unread_types, t, pp, kind, hints)
       IN /\ source_code_dict' = r.dict
          /\ unread_types' = r.unread
          /\ fetches' = fetches + (IF r.fetched THEN 1 ELSE 0)
          /\ left_unread' = left_unread \cup (unread_types \ r.unread)
          /\ lastCall' = [op |-> "read_source", t |-> t, pp |-> pp, ret |-> r.ret,
                          resolved |-> t \in DOMAIN source_code_dict,
                          found |-> IF r.fetched /\ kind = "ok"
                                    THEN NamedTypes(hints) \cap left_unread'
                                    ELSE {}]
  /\ UNCHANGED <<cfgVars, runVars, files, ghostVars, talkVars, auxVars, limits>>

\* IDE.collect_types_from_object(obj) on any object.
IDECollect ==
  /\ pc = "ide"
  /\ \E hints \in HintChoices \cup {NoHints} :
       /\ unread_types' = collect_types_from_object(source_code_dict,
                                                    unread_types, hints)
       /\ lastCall' = [NoCall EXCEPT !.op = "collect",
                                     !.found = NamedTypes(hints) \cap left_unread]
  /\ UNCHANGED <<source_code_dict, fetches, left_unread, cfgVars, runVars,
                 files, ghostVars, talkVars, auxVars, limits>>

\* The orchestrator builds the tool surface of a turn from the unread set.
IDEOffer ==
  /\ pc = "ide"
  /\ offered' = reveal_choices(unread_types)
  /\ lastCall' = [NoCall EXCEPT !.op = "offer"]
  /\ UNCHANGED <<source_code_dict, unread_types, fetches, left_unread, cfgVars,
                 pc, implementation_checksum, version, tries, chain_of_thought,
                 pending, outcome, result, files, ghostVars, talkVars, auxVars,
                 limits>>

NextIDE ==
  \/ IDEReadSource
  \/ IDECollect
  \/ IDEOffer

SpecIDE == InitIDE /\ [][NextIDE]_vars

---------------------------------------------------------------------------
(* The fingerprint on pairs of inputs                                      *)

FPInputs == [decl : Str(MaxSrcLen), tests : ListsOf(Str(1), MaxTests)]

InitFP ==
  /\ InitWith(RunLimits, "fp", {})
  /\ \E a \in FPInputs : fp = [phase |-> "start", a |-> a, b |-> a, reuse |-> FALSE]
  /\ rw = NoRW
  /\ sub = NoSub

\* A session for input a is accepted at its first attempt: the artifact it
\* writes at code_path (coder.py 318-340).
FPAccept ==
  /\ pc = "fp"
  /\ fp.phase = "start"
  /\ \E code \in {c \in Codes : c.compile = "ok"} :
       files' = WriteFile(files, artifact_path(FALSE, 1),
                  Render(1, FALSE,
                         get_implementation_checksum(fp.a.decl, fp.a.tests), code))
  /\ fp' = [fp EXCEPT !.phase = "stored"]
  /\ UNCHANGED <<ideVars, cfgVars, runVars, ghostVars, talkVars, rw, sub, limits>>

\* The cache check of a session for input b (coder.py 192-194).
FPCheck ==
  /\ pc = "fp"
  /\ fp.phase = "stored"
  /\ \E b \in FPInputs :
       fp' = [phase |-> "checked", a |-> fp.a, b |-> b,
              reuse |-> should_reuse_code(files,
                          get_implementation_checksum(b.decl, b.tests))]
  /\ UNCHANGED <<ideVars, cfgVars, runVars, files, ghostVars, talkVars, rw, sub,
                 limits>>

NextFP ==
  \/ FPAccept
  \/ FPCheck

SpecFP == InitFP /\ [][NextFP]_vars

---------------------------------------------------------------------------
(* A submission: format, deduplicate, merge (coder.py 297-307)             *)

\* A text is the list of its lines (text.split("\n")): never empty, the empty
\* text is one empty line. The lines the model draws: an empty line, a
\* statement that is no import, two import statements.
ImportLines == {"import a", "import b"}
LineTexts == {"", "pass"} \cup ImportLines
Texts(n) == UNION {[1..k -> LineTexts] : k \in 1..n}
ImportLists == {<<>>, <<"import a">>, <<"import a", "import b">>}

\* The pattern ^\s*(import .*|from .* import .*)$ on one line.
IsImport(line) == line \in ImportLines
ImportsOf(ls) == {ls[i] : i \in {j \in DOMAIN ls : IsImport(ls[j])}}
\* The lines of a text that are neither empty nor import statements.
Statements(ls) == SelectSeq(ls, LAMBDA l : l # "" /\ ~IsImport(l))

RECURSIVE LeadingBlanks(_)
LeadingBlanks(ls) ==
  IF ls = <<>> \/ ls[1] # "" THEN 0 ELSE 1 + LeadingBlanks(Tail(ls))

\* re.sub(pattern, "", code, flags=re.MULTILINE): at a line start \s* runs
\* over the empty lines before an import statement, so these lines and the
\* statement are replaced together and leave one empty line.
RECURSIVE re_sub(_)
re_sub(ls) ==
  IF ls = <<>> THEN <<>>
  ELSE LET k == LeadingBlanks(ls) IN
       IF k < Len(ls) /\ IsImport(ls[k + 1])
       THEN <<"">> \o re_sub(SubSeq(ls, k + 2, Len(ls)))
       ELSE IF k > 0
       THEN SubSeq(ls, 1, k) \o re_sub(SubSeq(ls, k + 1, Len(ls)))
       ELSE <<ls[1]>> \o re_sub(Tail(ls))

\* str.strip() on a text: the empty lines at both ends go.
RECURSIVE rstrip(_)
rstrip(ls) ==
  IF ls = <<>> \/ ls[Len(ls)] # "" THEN ls ELSE rstrip(SubSeq(ls, 1, Len(ls) - 1))
strip(ls) ==
  LET body == rstrip(SubSeq(ls, LeadingBlanks(ls) + 1, Len(ls)))
  IN IF body = <<>> THEN <<"">> ELSE body

\* Coder._remove_duplicate_imports (the import list is not consulted).
remove_duplicate_imports(code, imports) == strip(re_sub(code))

\* ruff format on a text that parses: no empty lines at the ends, one newline
\* at the end of the file.
ruff_format(ls) == IF strip(ls) = <<"">> THEN <<"">> ELSE strip(ls) \o <<"">>

\* Coder._format_code: "ok" the formatter ran, "error" it returned a non-zero
\* status (CalledProcessError), "missing" it is not installed
\* (FileNotFoundError).
FormatKinds == {"ok", "error", "missing"}
format_code(kind, code) == IF kind = "ok" THEN ruff_format(code) ELSE code

\* "\n".join(imports) + "\n\n" + code
full_code(imports, code) ==
  (IF imports = <<>> THEN <<"">> ELSE imports) \o <<"">> \o code

InitSubmit ==
  /\ InitWith(RunLimits, "submit", {})
  /\ fp = NoFP
  /\ rw = NoRW
  /\ \E imports \in ImportLists, code \in Texts(MaxLines) :
       sub = [NoSub EXCEPT !.phase = "submitted", !.imports = imports,
                           !.code = code]

\* coder.py 299: code = self._format_code(implementation.code)
SubmitFormat ==
  /\ pc = "submit"
  /\ sub.phase = "submitted"
  /\ \E kind \in FormatKinds :
       sub' = [sub EXCEPT !.phase = "formatted", !.fmt = kind,
                          !.formatted = format_code(kind, sub.code)]
  /\ UNCHANGED <<ideVars, cfgVars, runVars, files, ghostVars, talkVars, fp, rw,
                 limits>>

\* coder.py 300-307 and 338: the deduplicated body, which is what the artifact
\* stores as its code, and the unit that is compiled.
SubmitMerge ==
  /\ pc = "submit"
  /\ sub.phase = "formatted"
  /\ LET body == remove_duplicate_imports(sub.formatted, sub.imports) IN
       sub' = [sub EXCEPT !.phase = "merged", !.body = body,
                          !.unit = full_code(sub.imports, body)]
  /\ UNCHANGED <<ideVars, cfgVars, runVars, files, ghostVars, talkVars, fp, rw,
                 limits>>

NextSubmit ==
  \/ SubmitFormat
  \/ SubmitMerge

SpecSubmit == InitSubmit /\ [][NextSubmit]_vars

---------------------------------------------------------------------------
(* The in-place rewrite of the origin file (coder.py 342-349)              *)

FileChars == {"a", "b"}
FileTexts(n) == UNION {[1..k -> FileChars] : k \in 1..n}
AcceptedCodes == {<<"c">>, <<"a">>, <<>>}

\* str.replace(old, new) for a non-empty old: every occurrence of old, found
\* from the left and not overlapping an earlier one, is replaced.
RECURSIVE str_replace(_, _, _)
str_replace(text, old, new) ==
  IF Len(text) < Len(old) THEN text
  ELSE IF SubSeq(text, 1, Len(old)) = old
  THEN new \o str_replace(SubSeq(text, Len(old) + 1, Len(text)), old, new)
  ELSE <<text[1]>> \o str_replace(Tail(text), old, new)

\* The origin file, and in it the span first..last that is the declaration:
\* inspect.getsource(self.obj) is the text of that span.
InitRW ==
  /\ InitWith(RunLimits, "rw", {})
  /\ fp = NoFP
  /\ sub = NoSub
  /\ \E file \in FileTexts(MaxFileLen), code \in AcceptedCodes :
     \E first \in 1..Len(file) :
     \E last \in first..Len(file) :
       rw = [phase |-> "accepted", file |-> file, first |-> first, last |-> last,
             code |-> code, out |-> file]

\* coder.py 343-349: source.replace(inspect.getsource(self.obj), code)
RWRewrite ==
  /\ pc = "rw"
  /\ rw.phase = "accepted"
  /\ rw' = [rw EXCEPT !.phase = "rewritten",
                      !.out = str_replace(rw.file,
                                          SubSeq(rw.file, rw.first, rw.last),
                                          rw.code)]
  /\ UNCHANGED <<ideVars, cfgVars, runVars, files, ghostVars, talkVars, fp, sub,
                 limits>>

NextRW == RWRewrite

SpecRW == InitRW /\ [][NextRW]_vars

---------------------------------------------------------------------------
(* Claims                                                                  *)

InSession == pc \in {"run", "loop", "dispatch", "done"}

\* C1: if at the start of a session an artifact exists at code_path whose
\* stored checksum equals the checksum of the declaration's current source and
\* the predicates' sources, run() returns the object compiled from that
\* artifact and makes no service request, whatever max_tries, autonomous and
\* in_place are; the directory is left as it was.
C1_CacheHitReturnsArtifact ==
  [][ ( /\ pc = "run"
        /\ Slot \in DOMAIN files
        /\ ParseChecksum(files[Slot]) = get_implementation_checksum(declSrc, tests) )
      => ( /\ pc' = "done"
           /\ outcome' = "hit"
           /\ result' = files[Slot].code.id
           /\ requests' = 0
           /\ files' = files ) ]_vars

C1_Witness ==
  /\ outcome = "hit"
  /\ result \in CodeIds
  /\ requests = 0
  /\ max_tries = 0
  /\ ~autonomous
  /\ in_place

\* C2: the number of candidates compiled and tested in a session never
\* exceeds max_tries, also when one response carries several submit calls;
\* when the max_tries-th attempt fails the session ends with the exhaustion
\* error, so no further attempt follows.
C2_AttemptsWithinBudget ==
  InSession =>
    /\ attempts <= max_tries
    /\ (attempts = max_tries /\ lastAttempt.failed /\ lastAttempt.firstRaise = 0)
         => (pc = "done" /\ outcome = "exhausted")

\* two failed submit calls of one response spend a budget of two
C2_Witness ==
  /\ outcome = "exhausted"
  /\ max_tries = 2
  /\ attempts = 2
  /\ requests = 1

\* C3 (as claimed): a session that misses the cache and whose retry counter
\* has reached max_tries without an accepted candidate has ended with the
\* exhaustion error, for every max_tries >= 0; it never returns normally.
C3_ExhaustionRaised ==
  (pc = "done" /\ outcome # "hit" /\ tries >= max_tries) => outcome = "exhausted"

\* C4: code_path is written only by an attempt in which every predicate
\* passed; a failed attempt writes only its version-suffixed path; so the
\* artifact at code_path always records PASSED, also when it is served as a
\* cache hit.
SlotWritten ==
  /\ Slot \in DOMAIN files'
  /\ (Slot \notin DOMAIN files \/ files'[Slot] # files[Slot])
C4_AcceptedSlotOnlyOnPass ==
  [][ /\ (Slot \in DOMAIN files' => files'[Slot].tests_passed = "PASSED")
      /\ SlotWritten =>
           /\ attempts' = attempts + 1
           /\ lastAttempt'.firstFail = 0
           /\ lastAttempt'.firstRaise = 0
      /\ ( /\ attempts' = attempts + 1
           /\ lastAttempt'.firstFail # 0
           /\ lastAttempt'.firstRaise = 0 )
         => /\ ~SlotWritten
            /\ (Slot \in DOMAIN files') = (Slot \in DOMAIN files)
            /\ FailedPath(version') \in DOMAIN files'
            /\ files'[FailedPath(version')].tests_passed = "FAILED"
      /\ (outcome' = "hit" => files'[Slot].tests_passed = "PASSED") ]_vars

\* the session after an exhausted one, with the same inputs, misses the cache
C4_Witness ==
  /\ pc = "loop"
  /\ prev.outcome = "exhausted"
  /\ prev.declSrc = declSrc
  /\ prev.tests = tests
  /\ FailedPath(1) \in DOMAIN files
  /\ files[FailedPath(1)].implementation_checksum = implementation_checksum

\* C5: in every attempt the predicates are called once each, in the supplied
\* order, whatever earlier predicates returned (the loop stops only at a
\* predicate that raises), and the attempt is failed iff some predicate
\* returned fail.
C5_EveryPredicateRuns ==
  LET a == lastAttempt
      k == IF a.firstRaise = 0 THEN a.n ELSE a.firstRaise
  IN /\ (InSession /\ attempts > 0) => a.n = Len(tests)
     /\ a.log = [i \in 1..k |-> i]
     /\ a.firstRaise = 0 => (a.failed <=> a.firstFail # 0)

\* the first predicate fails and the second is still called
C5_Witness ==
  /\ lastAttempt.n = 2
  /\ lastAttempt.firstFail = 1
  /\ lastAttempt.firstRaise = 0
  /\ lastAttempt.log = <<1, 2>>
  /\ lastAttempt.failed

\* C6: after a session that ended accepted (not in-place), the next session
\* with the same declaration source and the same predicates is a cache hit:
\* it makes no service request and returns an object.
C6_AcceptedThenHit ==
  ( /\ pc \in {"loop", "dispatch", "done"}
    /\ prev.outcome = "accepted"
    /\ prev.declSrc = declSrc
    /\ prev.tests = tests )
  => ( /\ pc = "done"
       /\ outcome = "hit"
       /\ requests = 0
       /\ result \in CodeIds )

C6_Witness ==
  /\ prev.outcome = "accepted"
  /\ prev.declSrc = declSrc
  /\ prev.tests = tests
  /\ Len(tests) > 0
  /\ outcome = "hit"

\* C7 (as claimed): whatever candidate is submitted and whatever a predicate
\* does, no error other than exhaustion or missing credentials reaches the
\* caller of run().
C7_OnlyExhaustionEscalates ==
  pc = "done" => outcome \notin {"SyntaxError", "KeyError", "TestError"}

\* C8 (as claimed): two inputs that differ in the declaration source or in a
\* predicate source have different digested texts, and the artifact stored
\* for one is a cache miss for the other.
C8_FingerprintSensitive ==
  (fp.phase = "checked" /\ fp.a # fp.b)
  => /\ digested_text(fp.a.decl, fp.a.tests) # digested_text(fp.b.decl, fp.b.tests)
     /\ ~fp.reuse

\* C9: a type that has left the unread set (resolved, or its fetch failed)
\* is never in the unread set again and is never among the choices of the
\* reveal tool again, also when later calls find it in annotations.
C9_NeverUnreadAgain ==
  [][ /\ left_unread' \cap unread_types' = {}
      /\ lastCall'.op = "offer" => offered' \cap left_unread' = {} ]_vars

\* a later call names a type whose fetch had failed; it stays out of unread
C9_Witness ==
  \E t \in lastCall.found :
    /\ t \notin unread_types
    /\ source_code_dict[t] = NoneVal

\* C10: read_source on a type that is already resolved returns the value the
\* first resolve stored, fetches nothing and changes neither the dict nor the
\* unread set, whatever postprocessor the later call passes.
C10_ResolveIdempotent ==
  [][ (lastCall'.op = "read_source" /\ lastCall'.t \in DOMAIN source_code_dict)
      => /\ lastCall'.ret = source_code_dict[lastCall'.t]
         /\ source_code_dict' = source_code_dict
         /\ unread_types' = unread_types
         /\ fetches' = fetches ]_vars

\* a later call asks for the decorators to be stripped and gets the stored,
\* unstripped text
C10_Witness ==
  /\ lastCall.op = "read_source"
  /\ lastCall.resolved
  /\ lastCall.pp = "strip"
  /\ lastCall.ret # NoneVal
  /\ lastCall.ret.decorated

\* A step of the session that made a service request.
Requested == requests' = requests + 1
\* A step inside one session (not the one that discards it).
SameSession == pc' # "idle"

\* C11 (as claimed): for a type T the declaration's annotations reference,
\* the transcript of the first request does not hold T's source; T leaves the
\* unread set only in the dispatch of a reveal call naming T; and from then
\* on every request's transcript holds T's source.
C11_RevealOnDemand ==
  [][ /\ (Requested /\ requests = 0)
         => \A T \in unread_types \cup left_unread : T \notin messages.sources
      /\ SameSession
         => \A T \in unread_types \ unread_types' :
              pc = "dispatch" /\ trace'.call = "ReadSourceCode" /\ trace'.t = T
      /\ Requested => \A T \in left_unread : T \in messages.sources ]_vars

\* C11 (amended): the same for a type T other than the declaration itself,
\* the last part when the fetch of T's source succeeded; the transcript of
\* the first request holds the declaration's source only, and the transcript
\* never loses a source.
C11_RevealOnDemandFetched ==
  [][ /\ (Requested /\ requests = 0) => messages.sources = {Decl}
      /\ SameSession
         => /\ \A T \in (unread_types \ unread_types') \ {Decl} :
                 pc = "dispatch" /\ trace'.call = "ReadSourceCode" /\ trace'.t = T
            /\ messages.sources \subseteq messages'.sources
      /\ Requested
         => \A T \in left_unread \ {Decl} :
              source_code_dict[T] # NoneVal => T \in messages.sources ]_vars

\* the second request is made with a revealed type's source in the transcript
C11_Witness ==
  /\ requests = 2
  /\ pc = "dispatch"
  /\ \E T \in CustomTypes :
       /\ T \in left_unread
       /\ T \in messages.sources
       /\ trace.call = "none"

\* C12 (as claimed): when the formatter is missing or reports an error the
\* session goes on, and the code body the artifact stores is the submitted
\* code string, exactly.
C12_UnformattedStoredExactly ==
  (sub.phase = "merged" /\ sub.fmt \in {"error", "missing"})
  => sub.body = sub.code

\* C19 (as claimed): the unit that is compiled holds every import statement
\* of the submission, those of the import list and those of the body; the
\* deduplication removes an import line of the body only if the import list
\* holds the same statement; and the non-empty lines that are no import
\* statements are what they were.
C19_ImportsKept ==
  sub.phase = "merged"
  => /\ ImportsOf(sub.imports) \cup ImportsOf(sub.formatted) \subseteq ImportsOf(sub.unit)
     /\ ImportsOf(sub.formatted) \ ImportsOf(sub.body) \subseteq ImportsOf(sub.imports)
     /\ Statements(sub.body) = Statements(sub.formatted)

\* C13 (as claimed): a session that ends because the operator declined has
\* raised no error, returned no object and written no artifact, accepted or
\* failed (the session starts over an empty directory).
C13_CancelWritesNothing ==
  outcome = "cancelled" => (result = NoObj /\ files = EmptyFiles)

\* C13 (amended): such a session has raised no error and returned no object;
\* the operator is asked only after a failed attempt, so the failed artifacts
\* of the attempts before the prompt are there, one for each of them; the
\* cancellation itself writes nothing and there is no accepted artifact.
C13_CancelKeepsFailedOnly ==
  [][ outcome' = "cancelled"
      => /\ result' = NoObj
         /\ files' = files
         /\ ~autonomous'
         /\ tries' > 0
         /\ DOMAIN files' = {FailedPath(v) : v \in 1..tries'}
         /\ \A path \in DOMAIN files' : files'[path].tests_passed = "FAILED" ]_vars

C13_Witness ==
  /\ outcome = "cancelled"
  /\ tries = 1
  /\ requests = 1
  /\ DOMAIN files = {FailedPath(1)}

\* C14: after any sequence of collect and read_source calls (fetches that
\* fail and resolves that discover nested types included) no type is both in
\* source_code_dict and in unread_types, every type that was unread is in
\* one of the two, and the union of the two only grows.
C14_ResolvedUnreadPartition ==
  [][ /\ DOMAIN source_code_dict' \cap unread_types' = {}
      /\ left_unread' \subseteq DOMAIN source_code_dict'
      /\ (DOMAIN source_code_dict \cup unread_types)
           \subseteq (DOMAIN source_code_dict' \cup unread_types') ]_vars

\* a resolve found a nested type while another type's fetch has failed
C14_Witness ==
  /\ pc = "ide"
  /\ lastCall.op = "read_source"
  /\ ~lastCall.resolved
  /\ lastCall.ret # NoneVal
  /\ unread_types # {}
  /\ \E t \in DOMAIN source_code_dict : source_code_dict[t] = NoneVal

\* A step that handled a reveal call to its end (the source was read and the
\* tool message appended).
RevealHonoured ==
  /\ pc = "dispatch"
  /\ trace'.call = "ReadSourceCode"
  /\ trace'.dispatched = trace.dispatched + 1

\* C15: at every request the choices of the reveal tool are exactly the types
\* unread when the request is built, so the tool is offered iff that set is
\* not empty; a reveal call is honoured only for a type that is a choice of
\* the turn and is unread when the call is dispatched, and only such a call
\* adds to the resolved map during dispatch.
C15_RevealSurface ==
  [][ /\ Requested => (offered' = unread_types /\ unread_types' = unread_types)
      /\ RevealHonoured => (trace'.t \in offered /\ trace'.t \in unread_types)
      /\ pc = "dispatch"
         => /\ DOMAIN source_code_dict' \ DOMAIN source_code_dict \subseteq unread_types
            /\ DOMAIN source_code_dict' # DOMAIN source_code_dict => RevealHonoured
                 \/ outcome' = "PrintError" ]_vars

\* second request of a session: the type revealed in the first turn is no
\* choice any more and the tool is not offered
C15_Witness ==
  /\ requests = 2
  /\ pc = "dispatch"
  /\ offered = {}
  /\ left_unread \cap CustomTypes # {}

\* C16 (as claimed): the rewritten origin file is the original file with
\* exactly one span, the declaration's text, replaced by the accepted code,
\* every character outside that span unchanged, for every content of the
\* file.
C16_OneSpanReplaced ==
  rw.phase = "rewritten"
  => rw.out = SubSeq(rw.file, 1, rw.first - 1) \o rw.code
              \o SubSeq(rw.file, rw.last + 1, Len(rw.file))

\* C17 (as claimed): in interactive mode the operator is not asked before
\* the first candidate of the session is tested, and a candidate after a
\* failed attempt is compiled and tested only when the operator has confirmed
\* since that failure, also when it comes in the same response.
C17_ConfirmBetweenAttempts ==
  [][ (~autonomous /\ attempts' = attempts + 1)
      => IF attempts = 0 THEN ~trace.confirmed ELSE trace.confirmed ]_vars

\* C18 (as claimed, for a response whose calls did not end the session):
\* when the loop over the calls of a response is through, every call of the
\* response has been dispatched.
C18_EveryCallDispatched ==
  (pc = "loop" /\ requests > 0) => trace.dispatched = trace.ncalls

\* C20 (as claimed): whenever a request is sent, every tool call of the
\* earlier assistant messages of the transcript has its tool message.
C20_EveryCallAnswered ==
  [][ Requested => messages.open = 0 ]_vars

\* C21 (as claimed, with every way run() ends counted as terminal): a
\* session that has started reaches its end, whatever the service responds.
C21_SessionTerminates ==
  (pc = "run") ~> (pc = "done")

====
